---- MODULE Spec2Model ----
(***************************************************************************)
(* Model of `cloud save` (src/src/save.rs): the dispatcher `command`, the  *)
(* two streaming transfers (stream_to_cloud_async with generic_copy, and   *)
(* liststream_to_cloud), the materialize-then-put transfer (input_to_bytes *)
(* and stream_bytes) and Byte Coercion (value_to_bytes).                   *)
(*                                                                         *)
(* Text is a sequence of code points, bytes are a sequence of integers     *)
(* 0..255.  A chunk handed to the upload session is a record               *)
(* [len, data]: for bytes coerced from a value, data is the bytes; for a   *)
(* slice read from a byte source, data is <<offset>>, the position of the  *)
(* slice in the source (the bytes of a reader are identified by where they *)
(* were read, so lengths up to DEFAULT_BUF_SIZE stay cheap).               *)
(***************************************************************************)
EXTENDS Integers, Sequences, FiniteSets, TLC

VARIABLES
    pc,         \* position of the invocation in the code
    raw,        \* the --raw switch
    urlOk,      \* whether Url::from_str accepts the destination string
    ext,        \* extension of the destination path ("" when it has none)
    input,      \* the PipelineData handed to the command
    sigKind,    \* which Signals object the transfer polls
    interrupt,  \* the host's interrupt flag (set when the caller cancels)
    upload,     \* the multipart upload: "none", "open", "complete", "rejected"
    writes,     \* chunks given to WriteMultipart::write, in order
    object,     \* what is stored at the destination (<<>> while nothing is)
    stored,     \* whether an object has been committed at the destination
    ops,        \* history of the calls made to the backend and the session
    reads,      \* history of the results of reader.read, in order
    len,        \* generic_copy: bytes copied so far
    n,          \* generic_copy: result of the last read
    buf,        \* generic_copy: the chunk the last read left in the buffer
    ls,         \* liststream_to_cloud: values not yet taken from the stream
    v,          \* liststream_to_cloud: the value being handled
    bytes,      \* the bytes produced by value_to_bytes
    coerced,    \* history of the values handed to value_to_bytes
    converted,  \* history: how often the `to <ext>` command was called
    bridge,     \* history: the lookup of `to <ext>` and what the command returned
    asked,      \* history: where the invocation was when the caller cancelled
    result      \* what the invocation returned ("none" while running)

vars == <<pc, raw, urlOk, ext, input, sigKind, interrupt, upload, writes, object,
          stored, ops, reads, len, n, buf, ls, v, bytes, coerced, converted, bridge,
          asked, result>>

----------------------------------------------------------------------------
(* Bounds of the model *)

MaxReads == 3        \* reads a byte source answers before it reports its end
MaxListLen == 2      \* elements of a list value
MaxStreamLen == 2    \* values of a value stream

(* Program constant *)
DEFAULT_BUF_SIZE == 8192

----------------------------------------------------------------------------
(* Sequences *)

RECURSIVE Concat(_)
Concat(ss) == IF ss = <<>> THEN <<>> ELSE Head(ss) \o Concat(Tail(ss))

RECURSIVE SumLen(_)
SumLen(cs) == IF cs = <<>> THEN 0 ELSE Head(cs).len + SumLen(Tail(cs))

SeqsUpTo(S, k) == UNION {[1..i -> S] : i \in 0..k}

----------------------------------------------------------------------------
(* Values of the host (nu_protocol::Value), all of one record shape.       *)

Str(s)    == [t |-> "String", val |-> s,     vals |-> <<>>]
Bin(b)    == [t |-> "Binary", val |-> b,     vals |-> <<>>]
Int64(i)  == [t |-> "Int",    val |-> <<i>>, vals |-> <<>>]
ErrVal(e) == [t |-> "Error",  val |-> <<e>>, vals |-> <<>>]
Rec       == [t |-> "Record", val |-> <<>>,  vals |-> <<>>]
Nothing   == [t |-> "Nothing", val |-> <<>>, vals |-> <<>>]
List(vs)  == [t |-> "List",   val |-> <<>>,  vals |-> vs]

(* Results: Ok(payload) or Err(kind, code).  `code` identifies the error   *)
(* carried by a Value::Error when it is propagated.                        *)
Ok(x)       == [ok |-> TRUE,  val |-> x,    err |-> "",  code |-> 0]
Err(k, c)   == [ok |-> FALSE, val |-> <<>>, err |-> k,   code |-> c]

NewLine == 10

----------------------------------------------------------------------------
(* Text and bytes *)

(* The UTF-8 encoding of one code point (code points below 2048 suffice).  *)
Utf8(c) == IF c < 128 THEN <<c>> ELSE <<192 + (c \div 64), 128 + (c % 64)>>

(* String::into_bytes: the UTF-8 bytes of a text.                          *)
RECURSIVE into_bytes(_)
into_bytes(s) == IF s = <<>> THEN <<>> ELSE Utf8(Head(s)) \o into_bytes(Tail(s))

(* String::from_utf8: Ok(text) when the bytes are well-formed UTF-8 (one-  *)
(* and two-byte forms), Err otherwise.                                     *)
RECURSIVE from_utf8(_)
from_utf8(b) ==
    IF b = <<>> THEN Ok(<<>>)
    ELSE IF Head(b) < 128
         THEN LET r == from_utf8(Tail(b))
              IN  IF r.ok THEN Ok(<<Head(b)>> \o r.val) ELSE r
    ELSE IF /\ Head(b) \in 194..223
            /\ Len(b) >= 2
            /\ b[2] \in 128..191
         THEN LET r == from_utf8(SubSeq(b, 3, Len(b)))
              IN  IF r.ok THEN Ok(<<(Head(b) - 192) * 64 + (b[2] - 128)>> \o r.val)
                  ELSE r
    ELSE Err("FromUtf8", 0)

(* i64::to_string: decimal digits, with a leading '-' for negatives.       *)
RECURSIVE Digits(_)
Digits(i) == IF i < 10 THEN <<48 + i>> ELSE Digits(i \div 10) \o <<48 + (i % 10)>>

to_string(i) == IF i < 0 THEN <<45>> \o Digits(0 - i) ELSE Digits(i)

(* Value::coerce_into_string: Int, String and Binary (valid UTF-8 only)    *)
(* have a text; every other kind, an error value included, cannot be       *)
(* converted.                                                              *)
coerce_into_string(value) ==
    CASE value.t = "Int"    -> Ok(to_string(value.val[1]))
      [] value.t = "String" -> Ok(value.val)
      [] value.t = "Binary" -> IF from_utf8(value.val).ok
                               THEN from_utf8(value.val)
                               ELSE Err("CantConvert", 0)
      [] OTHER              -> Err("CantConvert", 0)

(* .map(Value::coerce_into_string).collect::<Result<Vec<String>, _>>():    *)
(* the texts of all elements, or the first failure in order.               *)
RECURSIVE collect_strings(_)
collect_strings(vals) ==
    IF vals = <<>> THEN Ok(<<>>)
    ELSE LET h == coerce_into_string(Head(vals))
         IN  IF ~h.ok THEN h
             ELSE LET r == collect_strings(Tail(vals))
                  IN  IF r.ok THEN Ok(<<h.val>> \o r.val) ELSE r

(* [String]::join(sep) *)
RECURSIVE join(_, _)
join(strs, sep) ==
    IF strs = <<>> THEN <<>>
    ELSE IF Len(strs) = 1 THEN Head(strs)
    ELSE Head(strs) \o sep \o join(Tail(strs), sep)

(* Mutant of value_to_bytes: the list is joined without the final newline. *)
value_to_bytes_NoTrailingNewline(value) ==
    CASE value.t = "String" -> Ok(into_bytes(value.val))
      [] value.t = "Binary" -> Ok(value.val)
      [] value.t = "List"   ->
            LET strs == collect_strings(value.vals)
            IN  IF strs.ok
                THEN Ok(into_bytes(join(strs.val, <<NewLine>>)))
                ELSE strs
      [] value.t = "Error"  -> Err("Carried", value.val[1])
      [] OTHER              ->
            LET str == coerce_into_string(value)
            IN  IF str.ok THEN Ok(into_bytes(str.val)) ELSE str

(* Mutant of value_to_bytes: no arm for Value::Error before the final one. *)
value_to_bytes_NoErrorArm(value) ==
    CASE value.t = "String" -> Ok(into_bytes(value.val))
      [] value.t = "Binary" -> Ok(value.val)
      [] value.t = "List"   ->
            LET strs == collect_strings(value.vals)
            IN  IF strs.ok
                THEN Ok(into_bytes(join(strs.val, <<NewLine>>) \o <<NewLine>>))
                ELSE strs
      [] OTHER              ->
            LET str == coerce_into_string(value)
            IN  IF str.ok THEN Ok(into_bytes(str.val)) ELSE str

(* value_to_bytes, save.rs:217-235 *)
value_to_bytes(value) ==
    CASE value.t = "String" -> Ok(into_bytes(value.val))
      [] value.t = "Binary" -> Ok(value.val)
      [] value.t = "List"   ->
            LET strs == collect_strings(value.vals)
            IN  IF strs.ok
                THEN Ok(into_bytes(join(strs.val, <<NewLine>>) \o <<NewLine>>))
                ELSE strs
      [] value.t = "Error"  -> Err("Carried", value.val[1])
      [] OTHER              ->
            LET str == coerce_into_string(value)
            IN  IF str.ok THEN Ok(into_bytes(str.val)) ELSE str

----------------------------------------------------------------------------
(* Inputs *)

(* PipelineData, all of one record shape.                                  *)
ByteStream(src)  == [kind |-> "ByteStream", source |-> src, vals |-> <<>>, val |-> Nothing]
ListStream(vs)   == [kind |-> "ListStream", source |-> "",  vals |-> vs,   val |-> Nothing]
Value(x)         == [kind |-> "Value",      source |-> "",  vals |-> <<>>, val |-> x]
Empty            == [kind |-> "Empty",      source |-> "",  vals |-> <<>>, val |-> Nothing]

(* ByteStreamSource: Read, File, or Child whose stdout is a pipe, a tee,   *)
(* or missing.                                                             *)
Sources == {"Read", "File", "ChildPipe", "ChildTee", "ChildNoStdout"}

ElemVals == {Str(<<97>>), Str(<<233>>), Int64(0 - 12), Bin(<<195>>), ErrVal(1)}

ScalarVals == ElemVals \cup {Str(<<>>), Str(<<104, 101, 108, 108, 111>>), Bin(<<0, 255>>),
                            Int64(7), Rec}

ListVals == {List(vs) : vs \in SeqsUpTo(ElemVals, MaxListLen)}

Vals == ScalarVals \cup ListVals

StreamVals == {Str(<<97>>), Str(<<98>>), Int64(0 - 12), ErrVal(1), Rec,
               List(<<Str(<<97>>), Int64(7)>>)}

Streams == SeqsUpTo(StreamVals, MaxStreamLen)

Inputs == {ByteStream(src) : src \in Sources}
            \cup {ListStream(vs) : vs \in Streams}
            \cup {Value(x) : x \in Vals}
            \cup {Empty}

(* Extensions a destination path can have; "" is a path without one.       *)
Exts == {"", "json", "dat"}

(* What a `to <ext>` command of the host can hand back.                    *)
ConvertOutputs == {Value(Str(<<123, 125>>)), Value(ErrVal(2)), Value(Rec)}

(* Results of reader.read(buf): Ok(k) with 0 <= k <= buf.len(), the        *)
(* transient ErrorKind::Interrupted, or another error.                     *)
ReadOk(k)       == [kind |-> "ok", n |-> k]
ReadInterrupted == [kind |-> "interrupted", n |-> 0]
ReadError       == [kind |-> "error", n |-> 0]

ReadLens == {1, 1000, DEFAULT_BUF_SIZE}

ReadResults == {ReadOk(k) : k \in {0} \cup ReadLens} \cup {ReadInterrupted, ReadError}

(* Bytes the reader has delivered: the position of the next read.          *)
RECURSIVE SumReads(_)
SumReads(rs) == IF rs = <<>> THEN 0 ELSE Head(rs).n + SumReads(Tail(rs))

(* Chunks: the slice of the source at position pos, and coerced bytes.     *)
Slice(pos, k) == [len |-> k, data |-> <<pos>>]
Chunk(b)      == [len |-> Len(b), data |-> b]

(* crate::parse_url: resolves the destination to a backend client and a    *)
(* path, or fails.                                                         *)
parse_url == {Ok(<<>>), Err("ParseUrl", 0)}

(* The backend's answers to put_multipart, finish and put.                 *)
BackendResults == {Ok(<<>>), Err("Backend", 0)}

Running == Err("running", 0)

Return(r) == /\ result' = r
             /\ pc' = "done"

(* Mutant of check: the flag is never looked at.                           *)
check_NeverSet == Ok(<<>>)

(* Signals::check: fails when the polled flag is set.  The flag made at    *)
(* save.rs:79 is owned by the command alone and Signals::empty() has no    *)
(* flag; only a Signals the caller shares sees the caller's interrupt.     *)
check == IF sigKind = "caller" /\ interrupt THEN Err("Interrupted", 0) ELSE Ok(<<>>)

----------------------------------------------------------------------------
(* The invocation: command *)

(* What is remembered of the lookup made by convert_to_extension.         *)
NoBridge == [lookup |-> "none", out |-> Empty]

(* Where the invocation is at this moment, kept when the caller cancels.   *)
NotAsked == [set |-> FALSE, pc |-> "", reads |-> 0, writes |-> 0, coerced |-> 0]
Now      == [set |-> TRUE, pc |-> pc, reads |-> Len(reads), writes |-> Len(writes),
             coerced |-> Len(coerced)]

backendVars == <<upload, writes, object, stored, ops>>
copyVars    == <<reads, len, n, buf>>
listVars    == <<ls, v>>
argVars     == <<raw, urlOk, ext, input>>

Init ==
    /\ pc = "command"
    /\ raw \in BOOLEAN
    /\ urlOk \in BOOLEAN
    /\ ext \in Exts
    /\ input \in Inputs
    /\ sigKind = "none"
    /\ interrupt = FALSE
    /\ upload = "none"
    /\ writes = <<>>
    /\ object = <<>>
    /\ stored = FALSE
    /\ ops = <<>>
    /\ reads = <<>>
    /\ len = 0
    /\ n = 0
    /\ buf = Slice(0, 0)
    /\ ls = <<>>
    /\ v = Nothing
    /\ bytes = <<>>
    /\ coerced = <<>>
    /\ converted = 0
    /\ bridge = NoBridge
    /\ asked = (IF interrupt THEN Now ELSE NotAsked)
    /\ result = Running

(* Mutant of ParseDestination: the destination is not parsed up front.    *)
ParseDestination_Unchecked ==
    /\ pc = "command"
    /\ pc' = "match"
    /\ UNCHANGED <<argVars, sigKind, interrupt, asked, backendVars, copyVars, listVars,
                   bytes, coerced, converted, bridge, result>>

(* command, save.rs:58-73: the destination string is parsed as a Url.      *)
ParseDestination ==
    /\ pc = "command"
    /\ IF urlOk
       THEN /\ pc' = "match"
            /\ UNCHANGED result
       ELSE Return(Err("IncorrectValue", 0))
    /\ UNCHANGED <<argVars, sigKind, interrupt, asked, backendVars, copyVars, listVars,
                   bytes, coerced, converted, bridge>>

(* Mutant of HandleByteStream: a child without stdout is copied like any  *)
(* other source.                                                           *)
HandleByteStream_AlwaysCopying ==
    /\ pc = "match"
    /\ input.kind = "ByteStream"
    /\ sigKind' = "fresh"
    /\ pc' = "s_parse_url"
    /\ UNCHANGED <<argVars, interrupt, asked, backendVars, copyVars, listVars,
                   bytes, coerced, converted, bridge, result>>

(* command, save.rs:76-107: a byte stream is copied from its source; a     *)
(* child without stdout is skipped.                                        *)
HandleByteStream ==
    /\ pc = "match"
    /\ input.kind = "ByteStream"
    /\ sigKind' = "fresh"
    /\ IF input.source = "ChildNoStdout"
       THEN Return(Ok(<<>>))
       ELSE /\ pc' = "s_parse_url"
            /\ UNCHANGED result
    /\ UNCHANGED <<argVars, interrupt, asked, backendVars, copyVars, listVars,
                   bytes, coerced, converted, bridge>>

(* Mutant of HandleListStream: the arm is taken without the raw switch.    *)
HandleListStream_IgnoringRaw ==
    /\ pc = "match"
    /\ input.kind = "ListStream"
    /\ sigKind' = "empty"
    /\ ls' = input.vals
    /\ pc' = "l_parse_url"
    /\ UNCHANGED <<argVars, interrupt, asked, backendVars, copyVars, v,
                   bytes, coerced, converted, bridge, result>>

(* command, save.rs:108-115: a list stream with --raw.                     *)
HandleListStream ==
    /\ pc = "match"
    /\ input.kind = "ListStream"
    /\ raw
    /\ sigKind' = "empty"
    /\ ls' = input.vals
    /\ pc' = "l_parse_url"
    /\ UNCHANGED <<argVars, interrupt, asked, backendVars, copyVars, v,
                   bytes, coerced, converted, bridge, result>>

(* command, save.rs:116-118: every other input.                            *)
HandleInput ==
    /\ pc = "match"
    /\ input.kind # "ByteStream"
    /\ ~(input.kind = "ListStream" /\ raw)
    /\ pc' = "input_to_bytes"
    /\ UNCHANGED <<argVars, sigKind, interrupt, asked, backendVars, copyVars, listVars,
                   bytes, coerced, converted, bridge, result>>

----------------------------------------------------------------------------
(* Materialize, then one put: input_to_bytes and stream_bytes *)

(* Mutant of target_ext: a string value is converted like any other.      *)
target_ext_ConvertingStrings ==
    IF raw THEN ""
    ELSE IF input.kind = "ByteStream" THEN ""
    ELSE ext

(* input_to_bytes, save.rs:247-256: the extension to convert for; "" is    *)
(* None.                                                                   *)
target_ext ==
    IF raw THEN ""
    ELSE IF input.kind = "ByteStream" THEN ""
    ELSE IF input.kind = "Value" /\ input.val.t = "String" THEN ""
    ELSE ext

Converted(out, wasCalled) == [ok |-> TRUE,  out |-> out,   called |-> wasCalled, err |-> ""]
ConvertFailed(k, wasCalled) == [ok |-> FALSE, out |-> Empty, called |-> wasCalled, err |-> k]

(* convert_to_extension: the outcomes of looking up `to <ext>` in the host *)
(* and calling it.  The lookup fails, finds nothing (the input is passed   *)
(* on), or finds the command, whose call fails or hands back its output.   *)
convert_to_extension(in) ==
    {ConvertFailed("FindDecl", FALSE), Converted(in, FALSE), ConvertFailed("CallDecl", TRUE)}
        \cup {Converted(out, TRUE) : out \in ConvertOutputs}

(* PipelineData::into_value: a list stream is collected into a list, and   *)
(* no data is the value nothing.                                           *)
into_value(data) ==
    CASE data.kind = "Value"      -> data.val
      [] data.kind = "ListStream" -> List(data.vals)
      [] OTHER                    -> Nothing

(* input_to_bytes, save.rs:239-265 *)
InputToBytes ==
    /\ pc = "input_to_bytes"
    /\ \E c \in (IF target_ext = "" THEN {Converted(input, FALSE)}
                 ELSE convert_to_extension(input)) :
          /\ converted' = converted + (IF c.called THEN 1 ELSE 0)
          /\ bridge' = [lookup |-> IF target_ext = "" THEN "none"
                                   ELSE IF c.called THEN "found"
                                   ELSE IF c.ok THEN "absent"
                                   ELSE "error",
                        out |-> IF c.called /\ c.ok THEN c.out ELSE Empty]
          /\ IF ~c.ok
             THEN /\ Return(Err(c.err, 0))
                  /\ UNCHANGED <<bytes, coerced>>
             ELSE LET value == into_value(c.out)
                      r == value_to_bytes(value)
                  IN  /\ coerced' = Append(coerced, value)
                      /\ IF r.ok
                         THEN /\ bytes' = r.val
                              /\ pc' = "sb_parse_url"
                              /\ UNCHANGED result
                         ELSE /\ Return(r)
                              /\ UNCHANGED bytes
    /\ UNCHANGED <<argVars, sigKind, interrupt, asked, backendVars, copyVars, listVars>>

(* stream_bytes, save.rs:286 *)
SB_ParseUrl ==
    /\ pc = "sb_parse_url"
    /\ \E r \in parse_url :
          IF r.ok
          THEN /\ pc' = "sb_put"
               /\ UNCHANGED result
          ELSE Return(r)
    /\ UNCHANGED <<argVars, sigKind, interrupt, asked, backendVars, copyVars, listVars,
                   bytes, coerced, converted, bridge>>

(* Mutant of SB_Put: a put the backend refuses is issued again.            *)
SB_Put_Retrying ==
    /\ pc = "sb_put"
    /\ ops' = Append(ops, "put")
    /\ \E r \in BackendResults :
          IF r.ok
          THEN /\ object' = <<Chunk(bytes)>>
               /\ stored' = TRUE
               /\ Return(Ok(<<>>))
          ELSE /\ pc' = "sb_put"
               /\ UNCHANGED <<object, stored, result>>
    /\ UNCHANGED <<argVars, sigKind, interrupt, asked, upload, writes, copyVars, listVars,
                   bytes, coerced, converted, bridge>>

(* stream_bytes, save.rs:288-300: one put of the whole buffer.             *)
SB_Put ==
    /\ pc = "sb_put"
    /\ ops' = Append(ops, "put")
    /\ \E r \in BackendResults :
          IF r.ok
          THEN /\ object' = <<Chunk(bytes)>>
               /\ stored' = TRUE
               /\ Return(Ok(<<>>))
          ELSE /\ Return(Err("GenericError", 0))
               /\ UNCHANGED <<object, stored>>
    /\ UNCHANGED <<argVars, sigKind, interrupt, asked, upload, writes, copyVars, listVars,
                   bytes, coerced, converted, bridge>>

----------------------------------------------------------------------------
(* Byte source: stream_to_cloud_async and generic_copy *)

(* stream_to_cloud_async, save.rs:172 *)
S_ParseUrl ==
    /\ pc = "s_parse_url"
    /\ \E r \in parse_url :
          IF r.ok
          THEN /\ pc' = "s_put_multipart"
               /\ UNCHANGED result
          ELSE Return(r)
    /\ UNCHANGED <<argVars, sigKind, interrupt, asked, backendVars, copyVars, listVars,
                   bytes, coerced, converted, bridge>>

(* stream_to_cloud_async, save.rs:173-174: the session is opened; a        *)
(* failure to open it is unwrapped, which panics.                          *)
S_PutMultipart ==
    /\ pc = "s_put_multipart"
    /\ ops' = Append(ops, "put_multipart")
    /\ \E r \in BackendResults :
          IF r.ok
          THEN /\ upload' = "open"
               /\ pc' = "gc_check"
               /\ UNCHANGED result
          ELSE /\ Return(Err("Panic", 0))
               /\ UNCHANGED upload
    /\ UNCHANGED <<argVars, sigKind, interrupt, asked, writes, object, stored, copyVars,
                   listVars, bytes, coerced, converted, bridge>>

(* Mutant of GC_Check: a cancellation completes the upload with what was  *)
(* written before the error is returned.                                   *)
GC_Check_Finalizing ==
    /\ pc = "gc_check"
    /\ IF check.ok
       THEN /\ pc' = "gc_read"
            /\ UNCHANGED <<result, backendVars>>
       ELSE /\ Return(check)
            /\ ops' = Append(ops, "finish")
            /\ upload' = "complete"
            /\ object' = writes
            /\ stored' = TRUE
            /\ UNCHANGED writes
    /\ UNCHANGED <<argVars, sigKind, interrupt, asked, copyVars, listVars,
                   bytes, coerced, converted, bridge>>

(* generic_copy, save.rs:200-201: the top of the loop polls the signal.    *)
GC_Check ==
    /\ pc = "gc_check"
    /\ IF check.ok
       THEN /\ pc' = "gc_read"
            /\ UNCHANGED result
       ELSE Return(check)
    /\ UNCHANGED <<argVars, sigKind, interrupt, asked, backendVars, copyVars, listVars,
                   bytes, coerced, converted, bridge>>

(* Mutant of GC_Read: an interrupted read is tried again at once, without *)
(* going back to the top of the loop.                                      *)
GC_Read_RetryingAtOnce ==
    /\ pc = "gc_read"
    /\ \E r \in ReadResults :
          /\ Len(reads) >= MaxReads => r = ReadOk(0)
          /\ reads' = Append(reads, r)
          /\ CASE r.kind = "ok" /\ r.n = 0 ->
                    /\ pc' = "s_finish"
                    /\ UNCHANGED <<n, buf, result>>
               [] r.kind = "ok" /\ r.n > 0 ->
                    /\ n' = r.n
                    /\ buf' = Slice(SumReads(reads), r.n)
                    /\ pc' = "gc_write"
                    /\ UNCHANGED result
               [] r.kind = "interrupted" ->
                    /\ pc' = "gc_read"
                    /\ UNCHANGED <<n, buf, result>>
               [] OTHER ->
                    /\ Return(Err("IOError", 0))
                    /\ UNCHANGED <<n, buf>>
    /\ UNCHANGED <<argVars, sigKind, interrupt, asked, backendVars, len, listVars,
                   bytes, coerced, converted, bridge>>

(* Mutant of GC_Read: an interrupted read is surfaced as a read failure,   *)
(* like any other read error.                                              *)
GC_Read_SurfacingInterrupted ==
    /\ pc = "gc_read"
    /\ \E r \in ReadResults :
          /\ Len(reads) >= MaxReads => r = ReadOk(0)
          /\ reads' = Append(reads, r)
          /\ CASE r.kind = "ok" /\ r.n = 0 ->
                    /\ pc' = "s_finish"
                    /\ UNCHANGED <<n, buf, result>>
               [] r.kind = "ok" /\ r.n > 0 ->
                    /\ n' = r.n
                    /\ buf' = Slice(SumReads(reads), r.n)
                    /\ pc' = "gc_write"
                    /\ UNCHANGED result
               [] OTHER ->
                    /\ Return(Err("IOError", 0))
                    /\ UNCHANGED <<n, buf>>
    /\ UNCHANGED <<argVars, sigKind, interrupt, asked, backendVars, len, listVars,
                   bytes, coerced, converted, bridge>>

(* generic_copy, save.rs:202-207 (and 211, 176 on the break): one read.    *)
(* A source answers at most MaxReads reads before it reports its end.      *)
GC_Read ==
    /\ pc = "gc_read"
    /\ \E r \in ReadResults :
          /\ Len(reads) >= MaxReads => r = ReadOk(0)
          /\ reads' = Append(reads, r)
          /\ CASE r.kind = "ok" /\ r.n = 0 ->
                    /\ pc' = "s_finish"
                    /\ UNCHANGED <<n, buf, result>>
               [] r.kind = "ok" /\ r.n > 0 ->
                    /\ n' = r.n
                    /\ buf' = Slice(SumReads(reads), r.n)
                    /\ pc' = "gc_write"
                    /\ UNCHANGED result
               [] r.kind = "interrupted" ->
                    /\ pc' = "gc_check"
                    /\ UNCHANGED <<n, buf, result>>
               [] OTHER ->
                    /\ Return(Err("IOError", 0))
                    /\ UNCHANGED <<n, buf>>
    /\ UNCHANGED <<argVars, sigKind, interrupt, asked, backendVars, len, listVars,
                   bytes, coerced, converted, bridge>>

(* Mutant of GC_Write: the whole buffer is written, not its first n bytes. *)
GC_Write_WholeBuffer ==
    /\ pc = "gc_write"
    /\ len' = len + n
    /\ writes' = Append(writes, [len |-> DEFAULT_BUF_SIZE, data |-> buf.data])
    /\ ops' = Append(ops, "write")
    /\ pc' = "gc_check"
    /\ UNCHANGED <<argVars, sigKind, interrupt, asked, upload, object, stored, reads, n, buf,
                   listVars, bytes, coerced, converted, bridge, result>>

(* generic_copy, save.rs:208-209: the chunk read is counted and written.   *)
GC_Write ==
    /\ pc = "gc_write"
    /\ len' = len + n
    /\ writes' = Append(writes, [len |-> n, data |-> buf.data])
    /\ ops' = Append(ops, "write")
    /\ pc' = "gc_check"
    /\ UNCHANGED <<argVars, sigKind, interrupt, asked, upload, object, stored, reads, n, buf,
                   listVars, bytes, coerced, converted, bridge, result>>

(* Mutant of S_Finish: a rejected completion is tried again.               *)
S_Finish_Retrying ==
    /\ pc = "s_finish"
    /\ ops' = Append(ops, "finish")
    /\ \E r \in BackendResults :
          IF r.ok
          THEN /\ upload' = "complete"
               /\ object' = writes
               /\ stored' = TRUE
               /\ Return(Ok(<<>>))
          ELSE /\ upload' = "rejected"
               /\ UNCHANGED <<pc, result, object, stored>>
    /\ UNCHANGED <<argVars, sigKind, interrupt, asked, writes, copyVars, listVars,
                   bytes, coerced, converted, bridge>>

(* stream_to_cloud_async, save.rs:178-186: the upload is completed.        *)
S_Finish ==
    /\ pc = "s_finish"
    /\ ops' = Append(ops, "finish")
    /\ \E r \in BackendResults :
          IF r.ok
          THEN /\ upload' = "complete"
               /\ object' = writes
               /\ stored' = TRUE
               /\ Return(Ok(<<>>))
          ELSE /\ upload' = "rejected"
               /\ Return(Err("GenericError", 0))
               /\ UNCHANGED <<object, stored>>
    /\ UNCHANGED <<argVars, sigKind, interrupt, asked, writes, copyVars, listVars,
                   bytes, coerced, converted, bridge>>

----------------------------------------------------------------------------
(* Value stream with --raw: liststream_to_cloud *)

(* liststream_to_cloud, save.rs:133 *)
L_ParseUrl ==
    /\ pc = "l_parse_url"
    /\ \E r \in parse_url :
          IF r.ok
          THEN /\ pc' = "l_put_multipart"
               /\ UNCHANGED result
          ELSE Return(r)
    /\ UNCHANGED <<argVars, sigKind, interrupt, asked, backendVars, copyVars, listVars,
                   bytes, coerced, converted, bridge>>

(* liststream_to_cloud, save.rs:134-135 *)
L_PutMultipart ==
    /\ pc = "l_put_multipart"
    /\ ops' = Append(ops, "put_multipart")
    /\ \E r \in BackendResults :
          IF r.ok
          THEN /\ upload' = "open"
               /\ pc' = "l_next"
               /\ UNCHANGED result
          ELSE /\ Return(Err("Panic", 0))
               /\ UNCHANGED upload
    /\ UNCHANGED <<argVars, sigKind, interrupt, asked, writes, object, stored, copyVars,
                   listVars, bytes, coerced, converted, bridge>>

(* liststream_to_cloud, save.rs:137: the stream hands over its next value, *)
(* or has none left.                                                       *)
L_Next ==
    /\ pc = "l_next"
    /\ IF ls = <<>>
       THEN /\ pc' = "l_finish"
            /\ UNCHANGED <<ls, v>>
       ELSE /\ v' = Head(ls)
            /\ ls' = Tail(ls)
            /\ pc' = "l_check"
    /\ UNCHANGED <<argVars, sigKind, interrupt, asked, backendVars, copyVars,
                   bytes, coerced, converted, bridge, result>>

(* liststream_to_cloud, save.rs:138 *)
L_Check ==
    /\ pc = "l_check"
    /\ IF check.ok
       THEN /\ pc' = "l_coerce"
            /\ UNCHANGED result
       ELSE Return(check)
    /\ UNCHANGED <<argVars, sigKind, interrupt, asked, backendVars, copyVars, listVars,
                   bytes, coerced, converted, bridge>>

(* liststream_to_cloud, save.rs:139 *)
L_Coerce ==
    /\ pc = "l_coerce"
    /\ coerced' = Append(coerced, v)
    /\ LET r == value_to_bytes(v)
       IN  IF r.ok
           THEN /\ bytes' = r.val
                /\ pc' = "l_write"
                /\ UNCHANGED result
           ELSE /\ Return(r)
                /\ UNCHANGED bytes
    /\ UNCHANGED <<argVars, sigKind, interrupt, asked, backendVars, copyVars, listVars,
                   converted, bridge>>

(* Mutant of L_Write: a newline is written after every value.              *)
L_Write_Separated ==
    /\ pc = "l_write"
    /\ writes' = Append(writes, Chunk(bytes \o <<NewLine>>))
    /\ ops' = Append(ops, "write")
    /\ pc' = "l_next"
    /\ UNCHANGED <<argVars, sigKind, interrupt, asked, upload, object, stored, copyVars,
                   listVars, bytes, coerced, converted, bridge, result>>

(* liststream_to_cloud, save.rs:140 *)
L_Write ==
    /\ pc = "l_write"
    /\ writes' = Append(writes, Chunk(bytes))
    /\ ops' = Append(ops, "write")
    /\ pc' = "l_next"
    /\ UNCHANGED <<argVars, sigKind, interrupt, asked, upload, object, stored, copyVars,
                   listVars, bytes, coerced, converted, bridge, result>>

(* Mutant of L_Finish: the outcome of the completion is dropped.           *)
L_Finish_IgnoringFailure ==
    /\ pc = "l_finish"
    /\ ops' = Append(ops, "finish")
    /\ \E r \in BackendResults :
          IF r.ok
          THEN /\ upload' = "complete"
               /\ object' = writes
               /\ stored' = TRUE
          ELSE /\ upload' = "rejected"
               /\ UNCHANGED <<object, stored>>
    /\ Return(Ok(<<>>))
    /\ UNCHANGED <<argVars, sigKind, interrupt, asked, writes, copyVars, listVars,
                   bytes, coerced, converted, bridge>>

(* liststream_to_cloud, save.rs:143-151 *)
L_Finish ==
    /\ pc = "l_finish"
    /\ ops' = Append(ops, "finish")
    /\ \E r \in BackendResults :
          IF r.ok
          THEN /\ upload' = "complete"
               /\ object' = writes
               /\ stored' = TRUE
               /\ Return(Ok(<<>>))
          ELSE /\ upload' = "rejected"
               /\ Return(Err("GenericError", 0))
               /\ UNCHANGED <<object, stored>>
    /\ UNCHANGED <<argVars, sigKind, interrupt, asked, writes, copyVars, listVars,
                   bytes, coerced, converted, bridge>>

----------------------------------------------------------------------------
(* The caller *)

(* The caller asks for cancellation: the host sets its interrupt flag.     *)
RequestCancel ==
    /\ pc # "done"
    /\ ~interrupt
    /\ interrupt' = TRUE
    /\ asked' = Now
    /\ UNCHANGED <<pc, argVars, sigKind, backendVars, copyVars, listVars,
                   bytes, coerced, converted, bridge, result>>

Next ==
    \/ ParseDestination
    \/ HandleByteStream
    \/ HandleListStream
    \/ HandleInput
    \/ InputToBytes
    \/ SB_ParseUrl
    \/ SB_Put
    \/ S_ParseUrl
    \/ S_PutMultipart
    \/ GC_Check
    \/ GC_Read
    \/ GC_Write
    \/ S_Finish
    \/ L_ParseUrl
    \/ L_PutMultipart
    \/ L_Next
    \/ L_Check
    \/ L_Coerce
    \/ L_Write
    \/ L_Finish
    \/ RequestCancel

Spec == Init /\ [][Next]_vars

----------------------------------------------------------------------------
(* The two streaming transfers called with a Signals the caller shares:    *)
(* both take `signals` as a parameter, and the caller may set its flag     *)
(* before the call or at any moment during it.                             *)

InitTransfer ==
    /\ \/ /\ pc = "s_parse_url"
          /\ input \in {ByteStream(src) : src \in {"Read", "File"}}
          /\ ls = <<>>
       \/ /\ pc = "l_parse_url"
          /\ input \in {ListStream(vs) : vs \in Streams}
          /\ ls = input.vals
    /\ raw = TRUE
    /\ urlOk = TRUE
    /\ ext = ""
    /\ sigKind = "caller"
    /\ interrupt \in BOOLEAN
    /\ upload = "none"
    /\ writes = <<>>
    /\ object = <<>>
    /\ stored = FALSE
    /\ ops = <<>>
    /\ reads = <<>>
    /\ len = 0
    /\ n = 0
    /\ buf = Slice(0, 0)
    /\ v = Nothing
    /\ bytes = <<>>
    /\ coerced = <<>>
    /\ converted = 0
    /\ bridge = NoBridge
    /\ asked = (IF interrupt THEN Now ELSE NotAsked)
    /\ result = Running

NextTransfer ==
    \/ S_ParseUrl
    \/ S_PutMultipart
    \/ GC_Check
    \/ GC_Read
    \/ GC_Write
    \/ S_Finish
    \/ L_ParseUrl
    \/ L_PutMultipart
    \/ L_Next
    \/ L_Check
    \/ L_Coerce
    \/ L_Write
    \/ L_Finish
    \/ RequestCancel

(* The steps of the transfer itself. The transfer is one task driven to    *)
(* completion by the caller's block_on: a step that can be taken is taken. *)
TransferStep ==
    \/ S_ParseUrl
    \/ S_PutMultipart
    \/ GC_Check
    \/ GC_Read
    \/ GC_Write
    \/ S_Finish
    \/ L_ParseUrl
    \/ L_PutMultipart
    \/ L_Next
    \/ L_Check
    \/ L_Coerce
    \/ L_Write
    \/ L_Finish

SpecTransfer == InitTransfer /\ [][NextTransfer]_vars

----------------------------------------------------------------------------
(* Vocabulary of the properties *)

Count(seq, x) == Cardinality({i \in DOMAIN seq : seq[i] = x})

Last(seq) == seq[Len(seq)]

Done == pc = "done"

(* The slices a sequence of read results delivers, in order.               *)
RECURSIVE SlicesFrom(_, _)
SlicesFrom(rs, pos) ==
    IF rs = <<>> THEN <<>>
    ELSE IF Head(rs).kind = "ok" /\ Head(rs).n > 0
         THEN <<Slice(pos, Head(rs).n)>> \o SlicesFrom(Tail(rs), pos + Head(rs).n)
    ELSE SlicesFrom(Tail(rs), pos)

(* The bytes of an object stored as a sequence of chunks of bytes.         *)
ObjectBytes(parts) == Concat([i \in DOMAIN parts |-> parts[i].data])

IsByteStream == input.kind = "ByteStream"
IsRawListStream == input.kind = "ListStream" /\ raw

(* C1: in a streaming transfer finalize() is called at most once on the    *)
(* session, every write() comes before it and none after it.               *)
C1_FinalizeOnceAfterAllWrites ==
    /\ Count(ops, "finish") <= 1
    /\ \A i, j \in DOMAIN ops :
          ops[i] = "finish" /\ ops[j] = "write" => j < i
    /\ Count(ops, "write") = Len(writes)

C1_Witness ==
    /\ Done
    /\ Count(ops, "finish") = 1
    /\ Count(ops, "write") >= 2

(* C2: every session that was opened has been finalized exactly once, as   *)
(* its last operation, when the invocation ends, on the error paths too.   *)
C2_OpenedSessionIsFinalized ==
    Done /\ upload # "none" =>
        /\ Count(ops, "finish") = 1
        /\ Last(ops) = "finish"

(* C3: a cancellation, a read failure or a coercion failure after the      *)
(* session was opened ends the invocation with that failure, finalize()    *)
(* never having been called: the session stays open with the chunks        *)
(* written so far and nothing is stored.                                   *)
TransferFailures == {"Interrupted", "IOError", "CantConvert", "Carried"}

SessionLeftOpen ==
    /\ upload = "open"
    /\ Count(ops, "finish") = 0
    /\ Count(ops, "write") = Len(writes)
    /\ ~stored
    /\ object = <<>>

C3_FailureLeavesSessionOpen ==
    /\ Done /\ upload # "none" /\ result.err \in TransferFailures => SessionLeftOpen
    /\ reads # <<>> /\ Last(reads).kind = "error" =>
          Done /\ result = Err("IOError", 0) /\ SessionLeftOpen
    /\ upload # "none" /\ coerced # <<>> /\ ~value_to_bytes(Last(coerced)).ok =>
          Done /\ result = value_to_bytes(Last(coerced)) /\ SessionLeftOpen
    /\ result.err = "Interrupted" =>
          Done /\ interrupt /\ pc = "done" /\ SessionLeftOpen
    /\ ~Done /\ upload = "open" /\ pc \notin {"s_finish", "l_finish"} =>
          Count(ops, "finish") = 0

C3_Witness ==
    /\ Done
    /\ result.err = "Interrupted"
    /\ upload = "open"
    /\ Len(writes) >= 1

(* C4: an invocation returns success only once its transfer is committed:  *)
(* finalize() succeeded on the streaming paths, the one put succeeded on   *)
(* the materialized path; the one success without a commit is the child    *)
(* without stdout; and no step had failed before a success.                *)
NoStepFailed ==
    /\ urlOk
    /\ upload # "rejected"
    /\ \A i \in DOMAIN reads : reads[i].kind # "error"
    /\ \A i \in DOMAIN coerced : value_to_bytes(coerced[i]).ok

C4_SuccessOnlyAfterCommit ==
    Done /\ result.ok =>
        /\ NoStepFailed
        /\ \/ /\ input = ByteStream("ChildNoStdout")
              /\ ops = <<>>
              /\ ~stored
           \/ /\ IsByteStream \/ IsRawListStream
              /\ upload = "complete"
              /\ Last(ops) = "finish"
              /\ stored
              /\ object = writes
           \/ /\ ~IsByteStream /\ ~IsRawListStream
              /\ ops = <<"put">>
              /\ stored
              /\ object = <<Chunk(bytes)>>

C4_Witness ==
    /\ Done
    /\ result.ok
    /\ IsByteStream
    /\ stored
    /\ Len(writes) >= 1

(* C5: the dispatcher runs one strategy per input shape and raw flag: a    *)
(* byte source is copied by the copy loop into a multipart session for     *)
(* either raw setting, a value stream with raw is written value by value   *)
(* into a multipart session, and everything else is materialized and       *)
(* written by one put without any session.                                 *)
C5_OneStrategyPerShape ==
    /\ IsByteStream =>
          /\ Count(ops, "put") = 0
          /\ coerced = <<>> /\ converted = 0
          /\ Done /\ result.ok /\ input.source # "ChildNoStdout" =>
                /\ ops[1] = "put_multipart" /\ Count(ops, "put_multipart") = 1
                /\ reads # <<>>
                /\ writes = SlicesFrom(reads, 0)
    /\ IsRawListStream =>
          /\ Count(ops, "put") = 0
          /\ reads = <<>> /\ converted = 0
          /\ Done /\ result.ok =>
                /\ ops[1] = "put_multipart" /\ Count(ops, "put_multipart") = 1
                /\ coerced = input.vals
                /\ Len(writes) = Len(input.vals)
    /\ ~IsByteStream /\ ~IsRawListStream =>
          /\ Count(ops, "put_multipart") = 0
          /\ upload = "none"
          /\ writes = <<>> /\ reads = <<>>
          /\ Len(coerced) <= 1
          /\ Done /\ result.ok =>
                /\ ops = <<"put">>
                /\ Len(coerced) = 1
                /\ object = <<Chunk(value_to_bytes(coerced[1]).val)>>

C5_Witness ==
    /\ Done
    /\ result.ok
    /\ input.kind = "ListStream"
    /\ ~raw
    /\ Len(input.vals) = 2
    /\ ops = <<"put">>

(* C6: a byte source that is a child process without a stdout pipe is a    *)
(* silent no-op: no session, no put, nothing read or written, and the      *)
(* invocation (whose destination parsed) returns success.                  *)
C6_ChildWithoutStdoutIsNoOp ==
    input = ByteStream("ChildNoStdout") =>
        /\ ops = <<>>
        /\ upload = "none"
        /\ writes = <<>> /\ reads = <<>>
        /\ ~stored /\ object = <<>>
        /\ pc \in {"command", "match", "done"}
        /\ Done /\ urlOk => result = Ok(<<>>)

C6_Witness ==
    /\ Done
    /\ input = ByteStream("ChildNoStdout")
    /\ sigKind = "fresh"
    /\ result.ok

(* C7: a raw value stream that completes has written its values in        *)
(* arrival order, one write per value, and the stored bytes are the        *)
(* concatenation of the values' bytes with nothing between them            *)
(* ("a", "b" is stored as the two bytes ab).                               *)
CoercedBytes(vs) == [i \in DOMAIN vs |-> value_to_bytes(vs[i]).val]

C7_RawStreamIsConcatenated ==
    IsRawListStream =>
        /\ Len(writes) <= Len(input.vals)
        /\ \A i \in DOMAIN writes :
              /\ value_to_bytes(input.vals[i]).ok
              /\ writes[i] = Chunk(value_to_bytes(input.vals[i]).val)
        /\ Done /\ result.ok =>
              /\ Len(writes) = Len(input.vals)
              /\ Count(ops, "write") = Len(input.vals)
              /\ ObjectBytes(object) = Concat(CoercedBytes(input.vals))
              /\ input.vals = <<Str(<<97>>), Str(<<98>>)>> =>
                    ObjectBytes(object) = <<97, 98>>

C7_Witness ==
    /\ Done
    /\ result.ok
    /\ IsRawListStream
    /\ input.vals = <<Str(<<97>>), Str(<<98>>)>>
    /\ ObjectBytes(object) = <<97, 98>>

(* C8: a copy loop that completes without error stopped at the first       *)
(* zero-length read and nowhere else; every non-empty chunk read was       *)
(* written once, in read order, before the next read; the count returned   *)
(* is the sum of the chunk lengths, which is the number of bytes written   *)
(* (reads of 1000 then 0 bytes transfer 1000 bytes).                       *)
CopyCompleted == pc = "s_finish" \/ (Done /\ Count(ops, "finish") = 1)

C8_CopyLoopTransfersEveryChunk ==
    IsByteStream =>
        /\ pc \in {"gc_check", "gc_read"} =>
              /\ writes = SlicesFrom(reads, 0)
              /\ \A i \in DOMAIN reads : reads[i] # ReadOk(0)
        /\ pc = "gc_write" =>
              /\ Append(writes, buf) = SlicesFrom(reads, 0)
              /\ \A i \in DOMAIN reads : reads[i] # ReadOk(0)
        /\ CopyCompleted =>
              /\ Last(reads) = ReadOk(0)
              /\ \A i \in 1..(Len(reads) - 1) : reads[i] # ReadOk(0)
              /\ writes = SlicesFrom(reads, 0)
              /\ len = SumReads(reads)
              /\ len = SumLen(writes)
        /\ reads = <<ReadOk(1000), ReadOk(0)>> =>
              /\ CopyCompleted
              /\ len = 1000
              /\ writes = <<Slice(0, 1000)>>

C8_Witness ==
    /\ pc = "s_finish"
    /\ reads = <<ReadOk(1000), ReadInterrupted, ReadOk(0)>>
    /\ len = 1000
    /\ SumLen(writes) = 1000

(* C9: when the signal the copy loop polls is set at the loop's first      *)
(* check, before any read, the loop fails with Cancelled: the source is    *)
(* not read and nothing is written to the sink.                            *)
C9_CancelledBeforeFirstRead ==
    [][pc = "gc_check" /\ reads = <<>> /\ sigKind = "caller" /\ interrupt =>
          /\ pc' = "done"
          /\ result' = Err("Interrupted", 0)
          /\ reads' = <<>>
          /\ writes' = <<>>
          /\ ops' = ops]_vars

C9_Witness ==
    /\ Done
    /\ IsByteStream
    /\ result = Err("Interrupted", 0)
    /\ upload = "open"
    /\ reads = <<>>
    /\ writes = <<>>

(* C10 as claimed: an error-carrying value, also as an element of a list,  *)
(* makes Byte Coercion fail with the carried error unchanged, nothing of   *)
(* it being written and no put being issued.                               *)
HasErrorElem(x) == x.t = "List" /\ \E i \in DOMAIN x.vals : x.vals[i].t = "Error"

FirstErrorCode(x) ==
    LET i == CHOOSE k \in DOMAIN x.vals :
                /\ x.vals[k].t = "Error"
                /\ \A j \in 1..(k - 1) : x.vals[j].t # "Error"
    IN  x.vals[i].val[1]

NothingWrittenFor(i) ==
    /\ Len(writes) = i - 1
    /\ Count(ops, "put") = 0
    /\ ~stored

C10_CarriedErrorAlwaysPropagated ==
    \A i \in DOMAIN coerced :
        LET x == coerced[i] IN
        /\ x.t = "Error" =>
              Done /\ result = Err("Carried", x.val[1]) /\ NothingWrittenFor(i)
        /\ HasErrorElem(x) =>
              Done /\ result = Err("Carried", FirstErrorCode(x)) /\ NothingWrittenFor(i)

(* C10 amended: an error value handed to Byte Coercion itself (the single  *)
(* value, or a value of a raw value stream) fails with the carried error   *)
(* unchanged; an error value that is an element of a list makes the        *)
(* coercion of the list fail with a conversion error instead.  Either way  *)
(* the invocation ends there, nothing of the value is written and no put   *)
(* is issued.                                                              *)
C10_ErrorValueFailsCoercion ==
    \A i \in DOMAIN coerced :
        LET x == coerced[i] IN
        /\ x.t = "Error" =>
              /\ i = Len(coerced)
              /\ Done /\ result = Err("Carried", x.val[1])
              /\ NothingWrittenFor(i)
        /\ HasErrorElem(x) =>
              /\ i = Len(coerced)
              /\ Done /\ result = Err("CantConvert", 0)
              /\ NothingWrittenFor(i)

C10_Witness ==
    /\ Done
    /\ IsRawListStream
    /\ Len(coerced) = 2
    /\ coerced[2] = ErrVal(1)
    /\ result = Err("Carried", 1)
    /\ Len(writes) = 1


(* C11: a destination that is not a well-formed location makes the         *)
(* invocation fail with InvalidLocation before anything else happens: the  *)
(* backend is not resolved, no session is opened, nothing is written or    *)
(* put, and the input is not read, coerced or converted, for every input   *)
(* shape and raw setting.                                                  *)
C11_InvalidLocationBeforeBackend ==
    ~urlOk =>
        /\ pc \in {"command", "done"}
        /\ Done => result = Err("IncorrectValue", 0)
        /\ ops = <<>>
        /\ upload = "none"
        /\ writes = <<>> /\ ~stored /\ object = <<>>
        /\ reads = <<>> /\ ls = <<>> /\ coerced = <<>>
        /\ converted = 0 /\ bridge = NoBridge

C11_Witness ==
    /\ Done
    /\ ~urlOk
    /\ IsRawListStream
    /\ Len(input.vals) = 2
    /\ result = Err("IncorrectValue", 0)


(* C12: the `to <ext>` transformation is called exactly when the input is  *)
(* on the materialize-then-put path, raw is not requested, the input is    *)
(* not a string value, the destination path has an extension and the host  *)
(* finds a command for it.  Otherwise the input is coerced as it came      *)
(* ("hello" without raw is stored as the 5 bytes hello); when the          *)
(* transformation is called, what it returned is coerced and stored.       *)
Materialized == ~IsByteStream /\ ~IsRawListStream

IsStringValue == input.kind = "Value" /\ input.val.t = "String"

BridgeApplies == Materialized /\ ~raw /\ ~IsStringValue /\ ext # ""

InputToBytesRan == pc \in {"sb_parse_url", "sb_put"} \/ (Done /\ Materialized /\ urlOk)

C12_FormatBridgeOnlyWhenItApplies ==
    /\ converted <= 1
    /\ converted = 1 <=> InputToBytesRan /\ BridgeApplies /\ bridge.lookup = "found"
    /\ bridge.lookup # "none" => InputToBytesRan /\ BridgeApplies
    /\ InputToBytesRan /\ BridgeApplies => bridge.lookup # "none"
    /\ converted = 0 /\ Materialized /\ coerced # <<>> =>
          /\ coerced = <<into_value(input)>>
          /\ stored => object = <<Chunk(value_to_bytes(into_value(input)).val)>>
    /\ converted = 1 /\ coerced # <<>> =>
          /\ bridge.out \in ConvertOutputs
          /\ coerced = <<into_value(bridge.out)>>
          /\ stored => object = <<Chunk(value_to_bytes(into_value(bridge.out)).val)>>
    /\ input = Value(Str(<<104, 101, 108, 108, 111>>)) /\ ~raw /\ stored =>
          /\ converted = 0
          /\ ObjectBytes(object) = <<104, 101, 108, 108, 111>>

C12_Witness ==
    /\ Done
    /\ stored
    /\ input = Value(Int64(7))
    /\ ext = "json"
    /\ converted = 1
    /\ ObjectBytes(object) = <<123, 125>>


(* C13: a non-empty list whose elements all have a text is coerced to the  *)
(* bytes of each element's text followed by one newline, in order (one     *)
(* newline between elements, one after the last); if an element has no     *)
(* text the coercion fails and nothing of the list is written.             *)
RECURSIVE LinesOf(_)
LinesOf(vals) ==
    IF vals = <<>> THEN <<>>
    ELSE into_bytes(coerce_into_string(Head(vals)).val) \o <<NewLine>> \o LinesOf(Tail(vals))

AllCoercible(vals) == \A i \in DOMAIN vals : coerce_into_string(vals[i]).ok

C13_ListIsNewlineTerminatedLines ==
    \A i \in DOMAIN coerced :
        LET x == coerced[i] IN
        x.t = "List" /\ x.vals # <<>> =>
            IF AllCoercible(x.vals)
            THEN /\ value_to_bytes(x) = Ok(LinesOf(x.vals))
                 /\ Materialized /\ pc \in {"sb_parse_url", "sb_put"} =>
                        bytes = LinesOf(x.vals)
                 /\ Materialized /\ stored => ObjectBytes(object) = LinesOf(x.vals)
                 /\ x = List(<<Str(<<97>>), Int64(0 - 12)>>) =>
                        value_to_bytes(x).val = <<97, 10, 45, 49, 50, 10>>
            ELSE /\ ~value_to_bytes(x).ok
                 /\ Done /\ result = Err("CantConvert", 0)
                 /\ NothingWrittenFor(i)

C13_Witness ==
    /\ Done
    /\ stored
    /\ input = Value(List(<<Str(<<233>>), Int64(0 - 12)>>))
    /\ ObjectBytes(object) = <<195, 169, 10, 45, 49, 50, 10>>


(* C14: every failure of a stage ends the invocation with one structured   *)
(* error handed back to the caller, the failure to open the multipart      *)
(* session included.                                                       *)
StructuredErrors ==
    {"IncorrectValue", "ParseUrl", "Interrupted", "IOError", "CantConvert", "Carried",
     "FindDecl", "CallDecl", "GenericError"}

C14_EveryFailureIsAStructuredError ==
    Done /\ ~result.ok => result.err \in StructuredErrors

(* C15: once the caller has asked for cancellation during the copy of a    *)
(* byte source, at most one further chunk (at most DEFAULT_BUF_SIZE bytes) *)
(* is read and written, and the copy does not run on to the end of the     *)
(* source.                                                                 *)
ChunksReadSince(k) ==
    Cardinality({i \in (k + 1)..Len(reads) : reads[i].kind = "ok" /\ reads[i].n > 0})

WrittenSince(k) == SubSeq(writes, k + 1, Len(writes))

AskedDuringCopy == asked.set /\ asked.pc \in {"gc_check", "gc_read", "gc_write"}

C15_CancelSeenWithinOneChunk ==
    IsByteStream /\ AskedDuringCopy =>
        /\ ChunksReadSince(asked.reads) <= 1
        /\ Len(WrittenSince(asked.writes)) <= 1
        /\ SumLen(WrittenSince(asked.writes)) <= DEFAULT_BUF_SIZE


(* C16 as claimed: after an interrupted read the next step of the loop is  *)
(* the retry read, with no poll of the signal in between, so the loop is   *)
(* never ended between an interrupted read and its retry; the interruption *)
(* is not surfaced and writes nothing.                                     *)
ReadIsInterrupted == pc = "gc_read" /\ reads' = Append(reads, ReadInterrupted)

AfterInterruptedRead == pc = "gc_check" /\ reads # <<>> /\ Last(reads) = ReadInterrupted

C16_RetryWithoutPoll ==
    [][/\ ReadIsInterrupted =>
             pc' = "gc_read" /\ result' = result /\ writes' = writes /\ len' = len
       /\ AfterInterruptedRead => pc' # "done"]_vars

(* C16 amended: an interrupted read goes back to the top of the loop,      *)
(* where the signal is polled again before the retry: the retry read       *)
(* follows only if that poll finds no cancellation, and a cancellation     *)
(* asked for between the interrupted read and its retry ends the loop with *)
(* Cancelled before the retry.  The interruption itself is not surfaced    *)
(* and writes nothing.                                                     *)
C16_RetryAfterPoll ==
    [][/\ ReadIsInterrupted =>
             pc' = "gc_check" /\ result' = result /\ writes' = writes /\ len' = len
       /\ AfterInterruptedRead /\ pc' # pc =>
             IF sigKind = "caller" /\ interrupt
             THEN pc' = "done" /\ result' = Err("Interrupted", 0) /\ reads' = reads
             ELSE pc' = "gc_read" /\ result' = result /\ reads' = reads]_vars

C16_Witness ==
    /\ Done
    /\ result = Err("Interrupted", 0)
    /\ reads # <<>>
    /\ Last(reads) = ReadInterrupted
    /\ asked.pc = "gc_check"
    /\ asked.reads = Len(reads)


(* C17: in a raw value stream the signal is polled once per value, after   *)
(* the value is taken and before it is coerced or written; when the caller *)
(* asks for cancellation before the k-th poll, no poll passes after that:  *)
(* the invocation fails with Cancelled with the first k-1 values written   *)
(* and the k-th neither coerced nor written.                               *)
PollsPassed == Len(coerced) + (IF pc = "l_coerce" THEN 1 ELSE 0)

PollsPassedWhenAsked == asked.coerced + (IF asked.pc = "l_coerce" THEN 1 ELSE 0)

C17_CancelSeenAtNextValue ==
    IsRawListStream /\ asked.set =>
        /\ PollsPassed = PollsPassedWhenAsked
        /\ Len(coerced) <= PollsPassedWhenAsked
        /\ Len(writes) <= PollsPassedWhenAsked
        /\ Done /\ result.err = "Interrupted" =>
              /\ Len(writes) = PollsPassedWhenAsked
              /\ Len(coerced) = PollsPassedWhenAsked
              /\ v = input.vals[PollsPassedWhenAsked + 1]


(* C18: one invocation opens at most one upload session and issues at most *)
(* one commit to the backend (one finish or one single put); it never      *)
(* issues both a multipart session and a single put, and nothing is issued *)
(* to the backend after the commit.                                        *)
IsCommit(op) == op \in {"finish", "put"}

Commits == Count(ops, "finish") + Count(ops, "put")

C18_OneSessionOneCommit ==
    /\ Count(ops, "put_multipart") <= 1
    /\ Commits <= 1
    /\ ~(Count(ops, "put_multipart") >= 1 /\ Count(ops, "put") >= 1)
    /\ \A i \in 1..Len(ops) : IsCommit(ops[i]) => i = Len(ops)
    /\ Count(ops, "finish") >= 1 => Count(ops, "put_multipart") = 1
    /\ Commits >= 1 => Done

C18_Witness ==
    /\ Done
    /\ ~result.ok
    /\ Materialized
    /\ ops = <<"put">>
    /\ ~stored


----------------------------------------------------------------------------
(* The transfers with the caller's signal, driven to completion.           *)
SpecTransferFair == InitTransfer /\ [][NextTransfer]_vars /\ WF_vars(TransferStep)

(* C19: on a finite byte source whose reads are interrupted finitely often *)
(* the copy loop eventually ends, and it ends in exactly one of three      *)
(* ways: success at the first zero-length read, a read failure at the      *)
(* first read error that is not an interruption, or cancellation at a      *)
(* check of the signal. An interrupted read never ends the loop: the loop  *)
(* goes on until the source answers otherwise or cancellation is seen.     *)
InCopyLoop == pc \in {"gc_check", "gc_read", "gc_write"}

NoEndBefore == \A i \in 1..Len(reads) : reads[i].kind = "interrupted" \/ reads[i].n > 0

EndsAtZeroRead ==
    /\ pc = "gc_read"
    /\ reads' = Append(reads, ReadOk(0))
    /\ NoEndBefore
    /\ pc' = "s_finish"
    /\ result' = result

EndsAtReadError ==
    /\ pc = "gc_read"
    /\ reads' = Append(reads, ReadError)
    /\ NoEndBefore
    /\ pc' = "done"
    /\ result' = Err("IOError", 0)

EndsAtCheck ==
    /\ pc = "gc_check"
    /\ sigKind = "caller" /\ interrupt
    /\ reads' = reads
    /\ pc' = "done"
    /\ result' = Err("Interrupted", 0)

CopyLoopStep ==
    /\ InCopyLoop /\ ~InCopyLoop' =>
          \/ EndsAtZeroRead /\ ~EndsAtReadError /\ ~EndsAtCheck
          \/ EndsAtReadError /\ ~EndsAtZeroRead /\ ~EndsAtCheck
          \/ EndsAtCheck /\ ~EndsAtZeroRead /\ ~EndsAtReadError
    /\ pc = "gc_read" /\ reads' = Append(reads, ReadOk(0)) => pc' = "s_finish"
    /\ pc = "gc_read" /\ reads' = Append(reads, ReadError) => pc' = "done"
    /\ pc = "gc_read" /\ reads' = Append(reads, ReadInterrupted) =>
          InCopyLoop' /\ result' = Running
    /\ pc = "gc_check" /\ pc' # pc /\ ~(sigKind = "caller" /\ interrupt) =>
          InCopyLoop' /\ result' = Running

C19_CopyLoopEndsInOneOfThreeWays ==
    /\ [][CopyLoopStep]_vars
    /\ InCopyLoop ~> ~InCopyLoop
    /\ InCopyLoop ~> Done

C19_Witness ==
    /\ pc = "s_finish"
    /\ Len(reads) = 3
    /\ reads[1] = ReadInterrupted
    /\ reads[2] = ReadOk(DEFAULT_BUF_SIZE)
    /\ reads[3] = ReadOk(0)
    /\ ~interrupt
    /\ len = DEFAULT_BUF_SIZE

====
